---- MODULE Spec2Model ----
(***************************************************************************)
(* VisoLearn local interface: the fallback matcher (fallback_mode.py),     *)
(* the checklist markup decoder and the Streamlit handlers (app.py).       *)
(* Strings are sequences of one-character strings, so that lower(),        *)
(* split(), strip() and the substring test are computed, not assumed.      *)
(***************************************************************************)
EXTENDS Integers, Sequences, FiniteSets, TLC

VARIABLES
    fallback_mode,        \* st.session_state.fallback_mode
    is_connected,         \* st.session_state.is_connected
    hf_token,             \* TRUE iff st.session_state.hf_token is non-empty
    connection_error,     \* st.session_state.connection_error
    active_session,       \* st.session_state.active_session
    checklist,            \* st.session_state.checklist
    conversation_history, \* st.session_state.conversation_history
    generated_image,      \* st.session_state.generated_image
    warning_shown,        \* the attempt panel shows the "Maximum attempts reached" warning
    progress_text,        \* the text the Progress panel shows, <<>> before it is rendered
    connecting,           \* VisoLearnClient.initialize as called by initialize_client:
                          \* where it is, the polls made, how it failed, and the
                          \* error message initialize_client showed for it
    submissions,          \* history: accepted submissions since the last generated image
    op,                   \* history: the last handler run: its name, whether it
                          \* succeeded, whether it stored a checklist it obtained,
                          \* whether it showed an error of the gateway and whether
                          \* it then offered the switch to fallback mode
    call,                 \* history: the FallbackMode.process_chat_message call of
                          \* the last handler run (its result is in checklist)
    fetched               \* history: the markup the last handler run decoded

vars == <<fallback_mode, is_connected, hf_token, connection_error,
          active_session, checklist, conversation_history, generated_image,
          warning_shown, progress_text, connecting, submissions, op, call, fetched>>

----------------------------------------------------------------------------
(* Bounds *)

MaxAttemptLimit == 2   \* largest "Allowed Attempts" value entered
MaxRand == 1           \* the random generator is followed from the seeds 0..MaxRand
MaxItems == 2          \* longest checklist handed to the matcher on its own
MaxProgressItems == 6  \* longest checklist handed to update_progress on its own
MaxSampleRand == 15    \* generate_placeholder_checklist on its own is followed
                       \* from the seeds 0..MaxSampleRand

----------------------------------------------------------------------------
(* Python str operations on character sequences *)

UpperCase == <<"A","B","C","D","E","F","G","H","I","J","K","L","M","N","O","P","Q","R","S","T","U","V","W","X","Y","Z">>
LowerCase == <<"a","b","c","d","e","f","g","h","i","j","k","l","m","n","o","p","q","r","s","t","u","v","w","x","y","z">>
Whitespace == {" ", "\t", "\n"}

\* a function on 1..n as a sequence value
AsSeq(f) == SubSeq(f, 1, Len(f))

LowerOf ==
    [c \in {UpperCase[i] : i \in 1..Len(UpperCase)} |->
        LowerCase[CHOOSE i \in 1..Len(UpperCase) : UpperCase[i] = c]]

LowerChar(c) == IF c \in DOMAIN LowerOf THEN LowerOf[c] ELSE c

Lower(s) == AsSeq([i \in 1..Len(s) |-> LowerChar(s[i])])

RECURSIVE SplitFrom(_, _, _)
SplitFrom(s, i, cur) ==
    IF i > Len(s)
    THEN IF cur = <<>> THEN <<>> ELSE <<cur>>
    ELSE IF s[i] \in Whitespace
         THEN IF cur = <<>> THEN SplitFrom(s, i + 1, <<>>)
                            ELSE <<cur>> \o SplitFrom(s, i + 1, <<>>)
         ELSE SplitFrom(s, i + 1, Append(cur, s[i]))

Split(s) == SplitFrom(s, 1, <<>>)

RECURSIVE LStrip(_)
LStrip(s) == IF s # <<>> /\ Head(s) \in Whitespace THEN LStrip(Tail(s)) ELSE s

RECURSIVE RStrip(_)
RStrip(s) ==
    IF s # <<>> /\ s[Len(s)] \in Whitespace THEN RStrip(SubSeq(s, 1, Len(s) - 1)) ELSE s

Strip(s) == RStrip(LStrip(s))

\* the Python test  sub in s
In(sub, s) ==
    \E i \in 0..(Len(s) - Len(sub)) : SubSeq(s, i + 1, i + Len(sub)) = sub

Digits == <<"0","1","2","3","4","5","6","7","8","9">>

\* str(n) for the counts that occur
Str(n) == IF n < 10 THEN <<Digits[n + 1]>> ELSE <<Digits[(n \div 10) + 1], Digits[(n % 10) + 1]>>

----------------------------------------------------------------------------
(* fallback_mode.py: FallbackMode.process_chat_message *)

LengthThreshold == 3

\* checklist.copy(): a new list holding the same item objects.  A list is a
\* sequence of addresses into heap, the sequence of item objects.
ListCopy(list, heap) == [list |-> list, heap |-> heap]

\* WordLoop with the length test len(word) >= 3
RECURSIVE WordLoop_AtLeast(_, _, _)
WordLoop_AtLeast(detail_words, j, message_lower) ==
    IF j > Len(detail_words) THEN FALSE
    ELSE IF Len(detail_words[j]) >= LengthThreshold /\ In(detail_words[j], message_lower)
         THEN TRUE
         ELSE WordLoop_AtLeast(detail_words, j + 1, message_lower)

\* for word in detail_words: if len(word) > 3 and word in message_lower: ...; break
RECURSIVE WordLoop(_, _, _)
WordLoop(detail_words, j, message_lower) ==
    IF j > Len(detail_words) THEN FALSE
    ELSE IF Len(detail_words[j]) > LengthThreshold /\ In(detail_words[j], message_lower)
         THEN TRUE
         ELSE WordLoop(detail_words, j + 1, message_lower)

\* ItemLoop without the skip of identified items: every flag is set to what
\* the message gives
RECURSIVE ItemLoop_Reevaluate(_, _, _, _)
ItemLoop_Reevaluate(heap, updated_checklist, i, message) ==
    IF i > Len(updated_checklist) THEN heap
    ELSE LET a == updated_checklist[i]
         IN ItemLoop_Reevaluate(
                [heap EXCEPT ![a].identified =
                    WordLoop(Split(Lower(heap[a].detail)), 1, Lower(message))],
                updated_checklist, i + 1, message)

\* ItemLoop with the break leaving the loop over the items: it stops at the
\* first item it identifies
RECURSIVE ItemLoop_BreakOuter(_, _, _, _)
ItemLoop_BreakOuter(heap, updated_checklist, i, message) ==
    IF i > Len(updated_checklist) THEN heap
    ELSE LET a == updated_checklist[i]
         IN IF heap[a].identified
            THEN ItemLoop_BreakOuter(heap, updated_checklist, i + 1, message)
            ELSE IF WordLoop(Split(Lower(heap[a].detail)), 1, Lower(message))
                 THEN [heap EXCEPT ![a].identified = TRUE]
                 ELSE ItemLoop_BreakOuter(heap, updated_checklist, i + 1, message)

\* for i, item in enumerate(updated_checklist): ...
RECURSIVE ItemLoop(_, _, _, _)
ItemLoop(heap, updated_checklist, i, message) ==
    IF i > Len(updated_checklist) THEN heap
    ELSE LET a == updated_checklist[i]
             item == heap[a]
         IN IF item.identified
            THEN ItemLoop(heap, updated_checklist, i + 1, message)
            ELSE IF WordLoop(Split(Lower(item.detail)), 1, Lower(message))
                 THEN ItemLoop([heap EXCEPT ![a].identified = TRUE],
                               updated_checklist, i + 1, message)
                 ELSE ItemLoop(heap, updated_checklist, i + 1, message)

\* UnidentifiedFrom without the test of the flag: the details of all items
RECURSIVE UnidentifiedFrom_All(_, _)
UnidentifiedFrom_All(s, i) ==
    IF i > Len(s) THEN <<>>
    ELSE <<s[i].detail>> \o UnidentifiedFrom_All(s, i + 1)

\* [item["detail"] for item in updated_checklist if not item["identified"]]
RECURSIVE UnidentifiedFrom(_, _)
UnidentifiedFrom(s, i) ==
    IF i > Len(s) THEN <<>>
    ELSE IF ~s[i].identified THEN <<s[i].detail>> \o UnidentifiedFrom(s, i + 1)
         ELSE UnidentifiedFrom(s, i + 1)

UnidentifiedDetails(items) == UnidentifiedFrom(items, 1)

\* random.choice(seq) under the random draw rnd
RandomChoice(seq, rnd) == seq[(rnd % Len(seq)) + 1]

\* The literal parts of a response are kept as one fragment each; a response
\* is the sequence of its fragments and of the characters put between them.
GreatJob == <<"Great job! You identified ">>
NewDetail == <<" new detail">>
Excellent == <<" Your observation skills are excellent!">>
GoodTry == <<"Good try! Can you tell me more about the ">>
Wonderful == <<"Wonderful! You've identified all the details in this image.">>
LastAttempt == <<"\n\nThis is your last attempt. After this, we'll move to a new image.">>

\* the condition under which the last-attempt sentence is appended
LastAttemptDue(attempt_count, attempt_limit, items) ==
    attempt_count + 1 >= attempt_limit /\ ~(\A i \in 1..Len(items) : items[i].identified)

\* active_session is <<>> for None, else <<session>>
FallbackMode_process_chat_message(message, checklist_arg, session_arg, rnd) ==
    LET n == Len(checklist_arg)
        heap0 == checklist_arg                      \* the caller's item objects
        orig == AsSeq([i \in 1..n |-> i])          \* the caller's list
        cp == ListCopy(orig, heap0)
        updated_checklist == cp.list
        heap1 == ItemLoop(cp.heap, updated_checklist, 1, message)
        newly_identified ==
            Cardinality({i \in 1..n : heap1[updated_checklist[i]].identified
                                      /\ ~heap1[orig[i]].identified})
        updated == AsSeq([i \in 1..n |-> heap1[updated_checklist[i]]])
        unidentified == UnidentifiedDetails(updated)
        base ==
            IF newly_identified > 0
            THEN GreatJob \o Str(newly_identified) \o NewDetail
                 \o (IF newly_identified > 1 THEN <<"s">> ELSE <<>>) \o <<".">>
                 \o (IF newly_identified > 1 THEN Excellent ELSE <<>>)
            ELSE IF unidentified # <<>>
                 THEN GoodTry \o Lower(RandomChoice(unidentified, rnd)) \o <<"?">>
                 ELSE Wonderful
        response ==
            IF session_arg # <<>> /\ session_arg[1].attempt_limit # 0
            THEN IF LastAttemptDue(session_arg[1].attempt_count,
                                   session_arg[1].attempt_limit, updated)
                 THEN base \o LastAttempt
                 ELSE base
            ELSE base
    IN [response |-> response,
        updated_checklist |-> updated,
        checklist |-> AsSeq([i \in 1..n |-> heap1[orig[i]]])]   \* the caller's list afterwards

----------------------------------------------------------------------------
(* fallback_mode.py: FallbackMode.generate_placeholder_checklist *)

generic_details ==
    << <<"B","a","c","k","g","r","o","u","n","d"," ","c","o","l","o","r">>, <<"M","a","i","n"," ","s","u","b","j","e","c","t">>, <<"F","o","r","e","g","r","o","u","n","d"," ","e","l","e","m","e","n","t","s">>,
       <<"L","i","g","h","t","i","n","g"," ","e","f","f","e","c","t","s">>, <<"S","h","a","d","o","w","s"," ","a","n","d"," ","h","i","g","h","l","i","g","h","t","s">>, <<"T","e","x","t","u","r","e"," ","p","a","t","t","e","r","n","s">>,
       <<"C","o","l","o","r"," ","s","c","h","e","m","e">> >>

animal_words == { <<"a","n","i","m","a","l">>, <<"a","n","i","m","a","l","s">>, <<"p","e","t">>, <<"p","e","t","s">>, <<"w","i","l","d","l","i","f","e">> }
animal_details ==
    << <<"A","n","i","m","a","l"," ","t","y","p","e">>, <<"A","n","i","m","a","l"," ","p","o","s","t","u","r","e">>, <<"A","n","i","m","a","l"," ","c","o","l","o","r","i","n","g">>,
       <<"H","a","b","i","t","a","t"," ","e","l","e","m","e","n","t","s">>, <<"A","n","i","m","a","l"," ","f","e","a","t","u","r","e","s">> >>

people_words == { <<"p","e","r","s","o","n">>, <<"p","e","o","p","l","e">>, <<"c","h","i","l","d">>, <<"c","h","i","l","d","r","e","n">>, <<"f","a","m","i","l","y">> }
people_details ==
    << <<"P","e","r","s","o","n","'","s"," ","e","x","p","r","e","s","s","i","o","n">>, <<"C","l","o","t","h","i","n","g"," ","i","t","e","m","s">>, <<"P","o","s","t","u","r","e"," ","o","r"," ","p","o","s","e">>,
       <<"H","a","i","r"," ","s","t","y","l","e">>, <<"A","c","t","i","o","n"," ","b","e","i","n","g"," ","p","e","r","f","o","r","m","e","d">> >>

nature_words == { <<"n","a","t","u","r","e">>, <<"l","a","n","d","s","c","a","p","e">>, <<"t","r","e","e">>, <<"f","o","r","e","s","t">>, <<"m","o","u","n","t","a","i","n">>, <<"o","c","e","a","n">> }
nature_details ==
    << <<"T","y","p","e"," ","o","f"," ","l","a","n","d","s","c","a","p","e">>, <<"P","l","a","n","t"," ","l","i","f","e">>, <<"W","e","a","t","h","e","r"," ","c","o","n","d","i","t","i","o","n","s">>,
       <<"T","i","m","e"," ","o","f"," ","d","a","y">>, <<"N","a","t","u","r","a","l"," ","f","e","a","t","u","r","e","s">> >>

object_words == { <<"o","b","j","e","c","t">>, <<"t","o","y">>, <<"i","t","e","m">>, <<"t","o","o","l">> }
object_details ==
    << <<"O","b","j","e","c","t"," ","s","h","a","p","e">>, <<"O","b","j","e","c","t"," ","p","u","r","p","o","s","e">>, <<"O","b","j","e","c","t"," ","m","a","t","e","r","i","a","l">>,
       <<"O","b","j","e","c","t"," ","s","i","z","e">>, <<"O","b","j","e","c","t"," ","c","o","l","o","r">> >>

Unknown == <<"U","n","k","n","o","w","n">>
MinDetails == 5
MaxDetails == 8

\* any(word in topic_words for word in bucket)
AnyIn(bucket, topic_words) ==
    \E w \in bucket : \E k \in 1..Len(topic_words) : topic_words[k] = w

topic_details(topic) ==
    IF topic # <<>> /\ topic # Unknown
    THEN LET topic_words == Split(Lower(topic))
         IN IF AnyIn(animal_words, topic_words) THEN animal_details
            ELSE IF AnyIn(people_words, topic_words) THEN people_details
            ELSE IF AnyIn(nature_words, topic_words) THEN nature_details
            ELSE IF AnyIn(object_words, topic_words) THEN object_details
            ELSE <<>>
    ELSE <<>>

Min(a, b) == IF a < b THEN a ELSE b

\* RandomSample drawing with replacement: the same position k times
RandomSample_Repeat(population, k, rnd) ==
    AsSeq([i \in 1..k |-> population[(rnd % Len(population)) + 1]])

\* random.sample(population, k) under the random draw rnd: k distinct
\* positions of the population, here the k that follow position rnd
RandomSample(population, k, rnd) ==
    AsSeq([i \in 1..k |-> population[((rnd + i - 1) % Len(population)) + 1]])

\* random.randint(a, b) under the random draw rnd
RandInt(a, b, rnd) == a + (rnd % (b - a + 1))

generate_placeholder_checklist(topic, rnd) ==
    LET all_details == topic_details(topic) \o generic_details
        num_details == Min(Len(all_details), RandInt(MinDetails, MaxDetails, rnd))
        selected_details == RandomSample(all_details, num_details, rnd)
    IN AsSeq([i \in 1..num_details |->
                [detail |-> selected_details[i], identified |-> FALSE, id |-> i - 1]])

----------------------------------------------------------------------------
(* app.py: extract_checklist_from_html *)

\* Markup is a sequence of elements.  An element of kind "item" stands for
\*   <div class="checklist-item CLS"><span class="checkmark">MARK</span><span>DETAIL</span></div>
\* and any other kind for markup the pattern does not describe.
IdentifiedClass == <<"i","d","e","n","t","i","f","i","e","d">>
NotIdentifiedClass == <<"n","o","t","-","i","d","e","n","t","i","f","i","e","d">>

HasChar(s, c) == \E i \in 1..Len(s) : s[i] = c

\* the pattern of re.findall: ([^"]+) for the class, ([^<]+) for mark and detail
PatternMatches(el) ==
    /\ el.kind = "item"
    /\ el.cls # <<>> /\ ~HasChar(el.cls, "\"")
    /\ el.mark # <<>> /\ ~HasChar(el.mark, "<")
    /\ el.detail # <<>> /\ ~HasChar(el.detail, "<")

RECURSIVE FindAll(_, _)
FindAll(html_content, i) ==
    IF i > Len(html_content) THEN <<>>
    ELSE IF PatternMatches(html_content[i])
         THEN <<html_content[i]>> \o FindAll(html_content, i + 1)
         ELSE FindAll(html_content, i + 1)

\* identified = "identified" in css_class
ClassIdentified(css_class) == In(IdentifiedClass, css_class)

extract_checklist_from_html(html_content) ==
    IF html_content = <<>> THEN <<>>
    ELSE LET matches == FindAll(html_content, 1)
         IN AsSeq([i \in 1..Len(matches) |->
                    [detail |-> matches[i].detail,
                     identified |-> ClassIdentified(matches[i].cls),
                     id |-> i - 1]])

----------------------------------------------------------------------------
(* fallback_mode.py: create_html_checklist *)

\* the check marks U+2705 and U+274C
CheckMark == <<"U+2705">>
CrossMark == <<"U+274C">>

\* the container's opening tag (kind "container"), its style sheet, one
\* checklist-item div per item, the container's closing tag (kind "close")
create_html_checklist(items) ==
    << [kind |-> "container", cls |-> <<>>, mark |-> <<>>, detail |-> <<>>],
       [kind |-> "style", cls |-> <<>>, mark |-> <<>>, detail |-> <<>>] >>
    \o AsSeq([i \in 1..Len(items) |->
                 [kind |-> "item",
                  cls |-> IF items[i].identified THEN IdentifiedClass
                                                 ELSE NotIdentifiedClass,
                  mark |-> IF items[i].identified THEN CheckMark ELSE CrossMark,
                  detail |-> items[i].detail]])
    \o << [kind |-> "close", cls |-> <<>>, mark |-> <<>>, detail |-> <<>>] >>

----------------------------------------------------------------------------
(* app.py: session state and the handlers.  A handler is an operator from   *)
(* the session state (a record of the variables) and the handler's inputs   *)
(* (what the user entered, what the gateway and random returned) to the     *)
(* session state it leaves behind.                                          *)

InitialAttemptLimit == 3
MinAttemptLimit == 1
\* the "Details Threshold (%)" slider
InitialThreshold == 70
MinThreshold == 10
MaxThreshold == 100
ThresholdStep == 5

NoError == "None"
MissingToken == "Missing Hugging Face token"
\* str(e) of the ConnectionError raised by VisoLearnClient; the handlers are
\* followed under one kind of failure
ConnectFailures == {"sleeping"}
ConnectOutcomes == {"ok"} \cup ConnectFailures

\* no call of VisoLearnClient.initialize made yet
Idle == [pc |-> "idle", polls |-> 0, stage |-> <<>>, kind |-> "", error_message |-> <<>>]

NoSession ==
    [image |-> "None", attempt_count |-> 0, attempt_limit |-> InitialAttemptLimit,
     details_threshold |-> InitialThreshold]

St ==
    [fallback_mode |-> fallback_mode, is_connected |-> is_connected,
     hf_token |-> hf_token,
     connection_error |-> connection_error, active_session |-> active_session,
     checklist |-> checklist, conversation_history |-> conversation_history,
     generated_image |-> generated_image, submissions |-> submissions,
     op |-> [handler |-> "", ok |-> FALSE, obtained |-> FALSE,
             error |-> FALSE, offered |-> FALSE, gateway |-> {}, blank |-> FALSE],
     call |-> <<>>, fetched |-> <<>>, ret |-> FALSE]

initialize_client(s, conn) ==
    IF ~s.hf_token
    THEN [s EXCEPT !.connection_error = MissingToken, !.is_connected = FALSE,
                   !.ret = FALSE]
    ELSE IF conn = "ok"
         THEN [s EXCEPT !.is_connected = TRUE, !.connection_error = NoError,
                        !.fallback_mode = FALSE,
                        !.op.gateway = @ \cup {"VisoLearnClient"}, !.ret = TRUE]
         ELSE [s EXCEPT !.connection_error = conn, !.is_connected = FALSE,
                        !.op.error = TRUE,
                        !.op.gateway = @ \cup {"VisoLearnClient"}, !.ret = FALSE]

toggle_fallback_mode(s, conn) ==
    LET s1 == [s EXCEPT !.fallback_mode = ~s.fallback_mode]
    IN IF s1.fallback_mode
       THEN [s1 EXCEPT !.is_connected = FALSE]
       ELSE initialize_client(s1, conn)

validate_token(s, conn) == initialize_client(s, conn)

placeholder_items ==
    << [detail |-> <<"O","b","j","e","c","t"," ","i","n"," ","i","m","a","g","e">>, identified |-> FALSE, id |-> 0],
       [detail |-> <<"C","o","l","o","r">>, identified |-> FALSE, id |-> 1],
       [detail |-> <<"S","h","a","p","e">>, identified |-> FALSE, id |-> 2],
       [detail |-> <<"B","a","c","k","g","r","o","u","n","d">>, identified |-> FALSE, id |-> 3] >>

\* in.conn2: outcome of the connection attempt; in.fetch: [raises, html], what
\* client.update_checklist() does
update_checklist(s, in) ==
    IF s.fallback_mode THEN s
    ELSE LET s0 == initialize_client(s, in.conn2)
             s1 == [s0 EXCEPT !.op.gateway = @ \cup {"update_checklist"}]
         IN IF ~s0.ret THEN s0
            ELSE IF in.fetch.raises THEN [s1 EXCEPT !.op.error = TRUE]
            ELSE LET extracted == extract_checklist_from_html(in.fetch.html)
                     new == IF extracted = <<>> /\ s1.active_session.image # "None"
                            THEN placeholder_items
                            ELSE extracted
                 IN [s1 EXCEPT !.checklist = new,
                               !.fetched = << [html |-> in.fetch.html,
                                               extracted |-> extracted] >>,
                               !.op.obtained = TRUE]

\* generate_image_fallback carrying the attempt count over to the new session
generate_image_fallback_KeepCount(s, in) ==
    IF in.placeholder
    THEN [s EXCEPT !.generated_image = "DataUrl",
                   !.active_session =
                       [image |-> "DataUrl",
                        attempt_count |-> s.active_session.attempt_count,
                        attempt_limit |-> in.attempt_limit,
                        details_threshold |-> in.details_threshold],
                   !.checklist = generate_placeholder_checklist(in.topic_focus, in.rnd),
                   !.conversation_history = <<>>,
                   !.submissions = 0,
                   !.op.ok = TRUE,
                   !.op.obtained = TRUE,
                   !.ret = TRUE]
    ELSE [s EXCEPT !.ret = FALSE]

\* generate_image_fallback leaving the conversation history as it is
generate_image_fallback_KeepHistory(s, in) ==
    IF in.placeholder
    THEN [s EXCEPT !.generated_image = "DataUrl",
                   !.active_session =
                       [image |-> "DataUrl", attempt_count |-> 0,
                        attempt_limit |-> in.attempt_limit,
                        details_threshold |-> in.details_threshold],
                   !.checklist = generate_placeholder_checklist(in.topic_focus, in.rnd),
                   !.submissions = 0,
                   !.op.ok = TRUE,
                   !.op.obtained = TRUE,
                   !.ret = TRUE]
    ELSE [s EXCEPT !.ret = FALSE]

\* the fallback branch of generate_image
generate_image_fallback(s, in) ==
    IF in.placeholder
    THEN LET new == generate_placeholder_checklist(in.topic_focus, in.rnd)
         IN [s EXCEPT !.generated_image = "DataUrl",
                      !.active_session =
                          [image |-> "DataUrl", attempt_count |-> 0,
                           attempt_limit |-> in.attempt_limit,
                           details_threshold |-> in.details_threshold],
                      !.checklist = new,
                      !.conversation_history = <<>>,
                      !.submissions = 0,
                      !.op.ok = TRUE,
                      !.op.obtained = TRUE,
                      !.ret = TRUE]
    ELSE [s EXCEPT !.ret = FALSE]

\* in.gen: what client.generate_image() does: "url" and "nourl" are a dict
\* with and without a url, "invalid" anything else, "raise" an exception
generate_image(s, in) ==
    IF s.fallback_mode THEN generate_image_fallback(s, in)
    ELSE LET s0 == initialize_client(s, in.conn)
             s1 == [s0 EXCEPT !.op.gateway = @ \cup {"generate_image"}]
         IN IF ~s0.ret
            THEN IF in.button
                 THEN [generate_image_fallback([s0 EXCEPT !.fallback_mode = TRUE,
                                                          !.op.offered = TRUE], in)
                          EXCEPT !.ret = FALSE]
                 ELSE [s0 EXCEPT !.op.offered = TRUE, !.ret = FALSE]
            ELSE IF in.gen \in {"url", "nourl"}
            THEN LET image == IF in.gen = "url" THEN "PlainUrl" ELSE "None"
                     s2 == [s1 EXCEPT
                               !.generated_image = (IF in.gen = "url" THEN "PlainUrl" ELSE "NoUrl"),
                               !.active_session =
                                   [image |-> image, attempt_count |-> 0,
                                    attempt_limit |-> in.attempt_limit,
                                    details_threshold |-> in.details_threshold],
                               !.submissions = 0,
                               !.op.ok = TRUE]
                     s3 == update_checklist(s2, in)
                 IN [s3 EXCEPT !.conversation_history = <<>>, !.ret = TRUE]
            ELSE IF in.gen = "invalid" THEN [s1 EXCEPT !.op.error = TRUE, !.ret = FALSE]
            ELSE IF in.button
                 THEN [generate_image_fallback([s1 EXCEPT !.fallback_mode = TRUE,
                                                          !.op.error = TRUE,
                                                          !.op.offered = TRUE], in)
                          EXCEPT !.ret = FALSE]
                 ELSE [s1 EXCEPT !.op.error = TRUE, !.op.offered = TRUE, !.ret = FALSE]

Child == "Child"
Teacher == "Teacher"

\* record_attempt without the test against the limit
record_attempt_Unbounded(session) ==
    [session EXCEPT !.attempt_count = session.attempt_count + 1]

\* if attempt_count < attempt_limit: attempt_count + 1
record_attempt(session) ==
    IF session.attempt_count < session.attempt_limit
    THEN [session EXCEPT !.attempt_count = session.attempt_count + 1]
    ELSE session

Flags(items) == AsSeq([i \in 1..Len(items) |-> items[i].identified])

\* what is kept of a call: the message, the flags of the checklist passed, the
\* session passed, the response, the flags of the caller's list afterwards, and
\* whether the call before it, on the checklist as it was then, had the same message
CallRecord(message, checklist_arg, session_arg, r, repeated) ==
    [message |-> message, before |-> Flags(checklist_arg), session |-> session_arg,
     response |-> r.response, original |-> Flags(r.checklist), repeated |-> repeated]

\* process_chat_message_fallback without the test for a blank message
process_chat_message_fallback_NoBlankTest(s, in) ==
    LET user_message == Strip(in.message)
        r == FallbackMode_process_chat_message(
                 user_message, s.checklist, <<s.active_session>>, in.rnd)
    IN [s EXCEPT !.checklist = r.updated_checklist,
                 !.conversation_history =
                     s.conversation_history \o
                         << <<Child, user_message>>, <<Teacher, r.response>> >>,
                 !.active_session = record_attempt(s.active_session),
                 !.submissions = s.submissions + 1,
                 !.op.ok = TRUE,
                 !.call = <<CallRecord(user_message, s.checklist,
                                       <<s.active_session>>, r,
                                       call # <<>> /\ call[1].message = user_message)>>]

\* the fallback branch of process_chat_message
process_chat_message_fallback(s, in) ==
    IF in.message = <<>> \/ Strip(in.message) = <<>> THEN s
    ELSE LET user_message == Strip(in.message)
             r == FallbackMode_process_chat_message(
                      user_message, s.checklist, <<s.active_session>>, in.rnd)
         IN [s EXCEPT !.checklist = r.updated_checklist,
                      !.conversation_history =
                          s.conversation_history \o
                              << <<Child, user_message>>, <<Teacher, r.response>> >>,
                      !.active_session = record_attempt(s.active_session),
                      !.submissions = s.submissions + 1,
                      !.op.ok = TRUE,
                      !.call = <<CallRecord(user_message, s.checklist,
                                            <<s.active_session>>, r,
                                            call # <<>> /\ call[1].message = user_message)>>]

\* process_chat_message counting an invalid reply as an attempt
process_chat_message_CountFailed(s_in, in) ==
    LET s == [s_in EXCEPT !.op.blank = (Strip(in.message) = <<>>)]
    IN
    IF s.fallback_mode THEN process_chat_message_fallback(s, in)
    ELSE LET s0 == initialize_client(s, in.conn)
             s1 == [s0 EXCEPT !.op.gateway = @ \cup {"chat_respond"}]
         IN IF ~s0.ret THEN s0
            ELSE IF in.message = <<>> \/ Strip(in.message) = <<>> THEN s0
            ELSE LET user_message == Strip(in.message)
                 IN IF in.chat = "tuple"
                    THEN LET s2 == [s1 EXCEPT
                                      !.conversation_history =
                                          s1.conversation_history \o
                                              << <<Child, user_message>>,
                                                 <<Teacher, in.ai_response>> >>,
                                      !.active_session = record_attempt(s1.active_session),
                                      !.submissions = s1.submissions + 1,
                                      !.op.ok = TRUE]
                             s3 == update_checklist(s2, in)
                         IN IF in.image_data = "url"
                            THEN [s3 EXCEPT !.generated_image = "PlainUrl",
                                            !.active_session.image = "PlainUrl"]
                            ELSE s3
                    ELSE IF in.chat = "invalid"
                    THEN [s1 EXCEPT !.op.error = TRUE,
                                    !.active_session = record_attempt(s1.active_session)]
                    ELSE IF in.button
                         THEN process_chat_message_fallback(
                                  [s1 EXCEPT !.fallback_mode = TRUE, !.op.error = TRUE,
                                             !.op.offered = TRUE],
                                  [in EXCEPT !.message = user_message])
                         ELSE [s1 EXCEPT !.op.error = TRUE, !.op.offered = TRUE]

\* in.chat: what client.chat_respond() does: "tuple" a tuple of at least two
\* elements, "invalid" anything else, "raise" an exception; in.image_data its
\* third element: "None", or a dict with ("url") or without ("nourl") a url
process_chat_message(s_in, in) ==
    LET s == [s_in EXCEPT !.op.blank = (Strip(in.message) = <<>>)]
    IN
    IF s.fallback_mode THEN process_chat_message_fallback(s, in)
    ELSE LET s0 == initialize_client(s, in.conn)
             s1 == [s0 EXCEPT !.op.gateway = @ \cup {"chat_respond"}]
         IN IF ~s0.ret THEN s0
            ELSE IF in.message = <<>> \/ Strip(in.message) = <<>> THEN s0
            ELSE LET user_message == Strip(in.message)
                 IN IF in.chat = "tuple"
                    THEN LET s2 == [s1 EXCEPT
                                      !.conversation_history =
                                          s1.conversation_history \o
                                              << <<Child, user_message>>,
                                                 <<Teacher, in.ai_response>> >>,
                                      !.active_session = record_attempt(s1.active_session),
                                      !.submissions = s1.submissions + 1,
                                      !.op.ok = TRUE]
                             s3 == update_checklist(s2, in)
                         IN IF in.image_data = "url"
                            THEN [s3 EXCEPT !.generated_image = "PlainUrl",
                                            !.active_session.image = "PlainUrl"]
                            ELSE s3
                    ELSE IF in.chat = "invalid" THEN [s1 EXCEPT !.op.error = TRUE]
                    ELSE IF in.button
                         THEN process_chat_message_fallback(
                                  [s1 EXCEPT !.fallback_mode = TRUE, !.op.error = TRUE,
                                             !.op.offered = TRUE],
                                  [in EXCEPT !.message = user_message])
                         ELSE [s1 EXCEPT !.op.error = TRUE, !.op.offered = TRUE]

\* save_session_log without the test of fallback mode
save_session_log_Always(s, in) ==
    LET s0 == initialize_client(s, in.conn)
        s1 == [s0 EXCEPT !.op.gateway = @ \cup {"save_session_log"}]
    IN IF ~s0.ret THEN s0
       ELSE IF in.save = "raise" THEN [s1 EXCEPT !.op.error = TRUE]
       ELSE [s1 EXCEPT !.op.ok = TRUE]

\* in.conn: outcome of the connection attempt; in.save: whether
\* client.save_session_log() returns ("ok") or raises ("raise")
save_session_log(s, in) ==
    IF s.fallback_mode THEN s
    ELSE LET s0 == initialize_client(s, in.conn)
             s1 == [s0 EXCEPT !.op.gateway = @ \cup {"save_session_log"}]
         IN IF ~s0.ret THEN s0
            ELSE IF in.save = "raise" THEN [s1 EXCEPT !.op.error = TRUE]
            ELSE [s1 EXCEPT !.op.ok = TRUE]

\* in.save: what client.save_all_session_images() does
save_session_images(s, in) ==
    IF s.fallback_mode THEN s
    ELSE LET s0 == initialize_client(s, in.conn)
             s1 == [s0 EXCEPT !.op.gateway = @ \cup {"save_all_session_images"}]
         IN IF ~s0.ret THEN s0
            ELSE IF in.save = "raise" THEN [s1 EXCEPT !.op.error = TRUE]
            ELSE [s1 EXCEPT !.op.ok = TRUE]

NoDetails == <<"N","o"," ","a","c","t","i","v","e"," ","s","e","s","s","i","o","n"," ","o","r"," ","n","o"," ","d","e","t","a","i","l","s"," ","t","o"," ","i","d","e","n","t","i","f","y",".">>

\* str(n)
RECURSIVE Decimal(_)
Decimal(n) == IF n < 10 THEN <<Digits[n + 1]>>
              ELSE Decimal(n \div 10) \o <<Digits[(n % 10) + 1]>>

\* (identified_items / total_items) * 100 as f"{percentage:.1f}" shows it, in
\* tenths: the tenth nearest to the quotient, the even one of two equally near
PercentageTenths(identified_items, total_items) ==
    IF total_items > 0
    THEN LET x == 1000 * identified_items
             t == x \div total_items
             r == x % total_items
         IN IF 2 * r > total_items \/ (2 * r = total_items /\ t % 2 = 1)
            THEN t + 1 ELSE t
    ELSE 0

\* f"{percentage:.1f}"
Fixed1(tenths) == Decimal(tenths \div 10) \o <<".", Digits[(tenths % 10) + 1]>>

\* sum(1 for item in checklist if item["identified"])
RECURSIVE CountIdentified(_, _)
CountIdentified(items, i) ==
    IF i > Len(items) THEN 0
    ELSE (IF items[i].identified THEN 1 ELSE 0) + CountIdentified(items, i + 1)

\* update_progress with the quotient total_items / identified_items
update_progress_Inverse(s) ==
    IF s.checklist = <<>> THEN NoDetails
    ELSE LET total_items == Len(s.checklist)
             identified_items == CountIdentified(s.checklist, 1)
         IN <<"P","r","o","g","r","e","s","s",":"," ">> \o Decimal(identified_items) \o <<"/">>
            \o Decimal(total_items) \o <<" ","d","e","t","a","i","l","s"," ","(">>
            \o Fixed1(PercentageTenths(total_items, identified_items)) \o <<"%",")">>

\* the value of client.update_progress() is not used
update_progress(s) ==
    IF s.checklist = <<>> THEN NoDetails
    ELSE LET total_items == Len(s.checklist)
             identified_items == CountIdentified(s.checklist, 1)
         IN <<"P","r","o","g","r","e","s","s",":"," ">> \o Decimal(identified_items) \o <<"/">>
            \o Decimal(total_items) \o <<" ","d","e","t","a","i","l","s"," ","(">>
            \o Fixed1(PercentageTenths(identified_items, total_items)) \o <<"%",")">>

\* the methods of the client update_progress calls: client.update_progress()
\* if connected and not in fallback mode, once the checklist is not empty
update_progress_gateway(s) ==
    IF s.checklist # <<>> /\ s.is_connected /\ ~s.fallback_mode
    THEN {"update_progress"}
    ELSE {}

\* max_attempts_warning with the test attempt_count > attempt_limit
max_attempts_warning_Above(session, items) ==
    /\ session.attempt_count > session.attempt_limit
    /\ ~(\A i \in 1..Len(items) : items[i].identified)

\* the attempt panel: "Maximum attempts reached. The next interaction will
\* move to a new image." is shown
max_attempts_warning(session, items) ==
    /\ session.attempt_count >= session.attempt_limit
    /\ ~(\A i \in 1..Len(items) : items[i].identified)

----------------------------------------------------------------------------
(* Inputs *)

Topics == { <<>>, <<"m","y"," ","P","e","t">> }
AttemptLimits == MinAttemptLimit..MaxAttemptLimit
Rnd == 0..MaxRand

Blank == <<" "," ">>
RedDog == <<"I"," ","s","e","e"," ","a"," ","b","i","g"," ","r","e","d"," ","d","o","g">>
LookShadows == <<"l","o","o","k"," ","a","t"," ","t","h","e"," ","s","h","a","d","o","w","s"," ","a","n","d"," ","h","i","g","h","l","i","g","h","t","s">>
Messages == { Blank, <<" ","T","h","e"," ","a","n","i","m","a","l"," ","h","a","s"," ","S","H","A","D","O","W","S"," ">> }

AiResponses == { <<"Nice!">> }

Item(cls, mark, detail) == [kind |-> "item", cls |-> cls, mark |-> mark, detail |-> detail]
Other == [kind |-> "style", cls |-> <<>>, mark |-> <<>>, detail |-> <<>>]

HtmlDocs ==
    { <<Other>>,
      <<Other, Item(NotIdentifiedClass, <<"x">>, <<"M","a","i","n"," ","s","u","b","j","e","c","t">>),
               Item(IdentifiedClass, <<"v">>, <<"C","o","l","o","r"," ","s","c","h","e","m","e">>)>> }

Fetches == { [raises |-> TRUE, html |-> <<>>] }
           \cup { [raises |-> FALSE, html |-> h] : h \in HtmlDocs }

SaveOutcomes == {"ok", "raise"}

\* inputs a handler does not read on the path taken
NoInput ==
    [message |-> <<>>, rnd |-> 0, conn |-> "ok", conn2 |-> "ok", chat |-> "tuple",
     ai_response |-> <<>>, image_data |-> "None", button |-> FALSE,
     fetch |-> [raises |-> TRUE, html |-> <<>>], gen |-> "invalid",
     placeholder |-> FALSE, topic_focus |-> <<>>, attempt_limit |-> MinAttemptLimit,
     details_threshold |-> InitialThreshold, save |-> "ok"]

----------------------------------------------------------------------------
(* The application *)

Init ==
    /\ fallback_mode = FALSE
    /\ is_connected = FALSE
    /\ hf_token \in BOOLEAN
    /\ connection_error = NoError
    /\ active_session = NoSession
    /\ checklist = <<>>
    /\ conversation_history = <<>>
    /\ generated_image = "None"
    /\ warning_shown = FALSE
    /\ progress_text = NoDetails
    /\ connecting = Idle
    /\ submissions = 0
    /\ op = [handler |-> "", ok |-> FALSE, obtained |-> FALSE,
             error |-> FALSE, offered |-> FALSE, gateway |-> {}, blank |-> FALSE]
    /\ call = <<>>
    /\ fetched = <<>>

\* the handler leaves s behind and the script is rerun, which renders the panels
Commit(result, handler) ==
    \E s \in {result} :
    /\ fallback_mode' = s.fallback_mode
    /\ is_connected' = s.is_connected
    /\ hf_token' = s.hf_token
    /\ connection_error' = s.connection_error
    /\ active_session' = s.active_session
    /\ checklist' = s.checklist
    /\ conversation_history' = s.conversation_history
    /\ generated_image' = s.generated_image
    /\ warning_shown' = max_attempts_warning(s.active_session, s.checklist)
    /\ progress_text' = update_progress(s)
    /\ connecting' = connecting
    /\ submissions' = s.submissions
    /\ op' = [s.op EXCEPT !.handler = handler,
                          !.gateway = @ \cup update_progress_gateway(s)]
    /\ call' = s.call
    /\ fetched' = s.fetched

\* the token field, shown outside fallback mode
EnterToken ==
    /\ ~fallback_mode
    /\ \E t \in BOOLEAN : t # hf_token /\ Commit([St EXCEPT !.hf_token = t], "text_input")

\* the Validate button, shown outside fallback mode
ValidateToken ==
    /\ ~fallback_mode
    /\ \E conn \in ConnectOutcomes : Commit(validate_token(St, conn), "validate_token")

\* the "Use Fallback Mode" checkbox
ToggleFallback ==
    \E conn \in ConnectOutcomes :
        Commit(toggle_fallback_mode(St, conn), "toggle_fallback_mode")

FallbackInputs ==
    { [NoInput EXCEPT !.topic_focus = t, !.attempt_limit = l, !.placeholder = p,
                      !.rnd = d] :
        t \in Topics, l \in AttemptLimits, p \in BOOLEAN, d \in Rnd }

\* "Generate Placeholder Image"
GenerateImageFallback ==
    /\ fallback_mode
    /\ \E in \in FallbackInputs : Commit(generate_image(St, in), "generate_image")

\* "Generate Image", disabled without a token: the gateway delivers
GenerateImageApi ==
    /\ ~fallback_mode /\ hf_token
    /\ \E l \in AttemptLimits, g \in {"url", "nourl"}, c2 \in ConnectOutcomes, f \in Fetches :
           Commit(generate_image(St, [NoInput EXCEPT !.attempt_limit = l, !.gen = g,
                                                     !.conn2 = c2, !.fetch = f]),
                  "generate_image")

\* the ways "Generate Image" fails: no connection, or the call raises or
\* returns something invalid
ApiFailures ==
    { [NoInput EXCEPT !.conn = c] : c \in ConnectFailures }
    \cup { [NoInput EXCEPT !.gen = g] : g \in {"invalid", "raise"} }

GenerateImageApiFails ==
    /\ ~fallback_mode /\ hf_token
    /\ \E in \in ApiFailures : Commit(generate_image(St, in), "generate_image")

\* ... and "Use Fallback Mode Instead" is taken
GenerateImageUseFallback ==
    /\ ~fallback_mode /\ hf_token
    /\ \E a \in ApiFailures \ {[NoInput EXCEPT !.gen = "invalid"]}, in \in FallbackInputs :
           Commit(generate_image(St, [in EXCEPT !.conn = a.conn, !.gen = a.gen,
                                                !.button = TRUE]),
                  "generate_image")

\* "Submit Description" is enabled; an image's submissions are followed
\* until one past its attempt limit
SubmitEnabled ==
    /\ is_connected \/ fallback_mode
    /\ generated_image # "None"
    /\ submissions <= active_session.attempt_limit

SubmitFallback ==
    /\ SubmitEnabled /\ fallback_mode
    /\ \E m \in Messages, d \in Rnd :
           Commit(process_chat_message(St, [NoInput EXCEPT !.message = m, !.rnd = d]),
                  "process_chat_message")

\* the gateway answers the submission
SubmitApi ==
    /\ SubmitEnabled /\ ~fallback_mode
    /\ \E m \in Messages, a \in AiResponses, i \in {"None", "url"},
          c2 \in ConnectOutcomes, f \in Fetches :
           Commit(process_chat_message(St, [NoInput EXCEPT !.message = m, !.ai_response = a,
                                                           !.image_data = i, !.conn2 = c2,
                                                           !.fetch = f]),
                  "process_chat_message")

ChatFailures ==
    { [NoInput EXCEPT !.conn = c] : c \in ConnectFailures }
    \cup { [NoInput EXCEPT !.chat = g] : g \in {"invalid", "raise"} }

SubmitApiFails ==
    /\ SubmitEnabled /\ ~fallback_mode
    /\ \E m \in Messages, a \in ChatFailures :
           Commit(process_chat_message(St, [a EXCEPT !.message = m]),
                  "process_chat_message")

\* the call raises and "Switch to Fallback Mode" is taken
SubmitApiSwitchFallback ==
    /\ SubmitEnabled /\ ~fallback_mode
    /\ \E m \in Messages, d \in Rnd :
           Commit(process_chat_message(St, [NoInput EXCEPT !.message = m, !.rnd = d,
                                                           !.chat = "raise",
                                                           !.button = TRUE]),
                  "process_chat_message")

\* "Save Log" and "Save Images" are enabled when connected outside fallback mode
SaveLog ==
    /\ is_connected /\ ~fallback_mode
    /\ \E conn \in ConnectOutcomes, sv \in SaveOutcomes :
           Commit(save_session_log(St, [NoInput EXCEPT !.conn = conn, !.save = sv]),
                  "save_session_log")

SaveImages ==
    /\ is_connected /\ ~fallback_mode
    /\ \E conn \in ConnectOutcomes, sv \in SaveOutcomes :
           Commit(save_session_images(St, [NoInput EXCEPT !.conn = conn, !.save = sv]),
                  "save_session_images")

Next ==
    \/ EnterToken
    \/ ValidateToken
    \/ ToggleFallback
    \/ GenerateImageFallback
    \/ GenerateImageApi
    \/ GenerateImageApiFails
    \/ GenerateImageUseFallback
    \/ SubmitFallback
    \/ SubmitApi
    \/ SubmitApiFails
    \/ SubmitApiSwitchFallback
    \/ SaveLog
    \/ SaveImages

Spec == Init /\ [][Next]_vars

----------------------------------------------------------------------------
(* FallbackMode.process_chat_message called on its own, again and again on   *)
(* the checklist it returned                                                 *)

AnimalType == <<"A","n","i","m","a","l"," ","t","y","p","e">>
AnimalColoring == <<"A","n","i","m","a","l"," ","c","o","l","o","r","i","n","g">>
ShadowsAndHighlights == <<"S","h","a","d","o","w","s"," ","a","n","d"," ","h","i","g","h","l","i","g","h","t","s">>
SunSky == <<"S","u","n"," ","s","k","y">>

MatchDetails == { AnimalType, AnimalColoring, ShadowsAndHighlights, SunSky }

Utterances ==
    { <<>>, RedDog, LookShadows, <<"S","u","n","n","y"," ","T","Y","P","E","w","r","i","t","e","r">>, <<"a","n"," ","A","N","I","M","A","L"," ","c","o","l","o","r"," ","i","n","g">> }

ItemsOfLen(k) ==
    { AsSeq([i \in 1..k |-> [detail |-> d[i], identified |-> f[i], id |-> i - 1]]) :
        d \in [1..k -> MatchDetails], f \in [1..k -> BOOLEAN] }

MatchChecklists == UNION { ItemsOfLen(k) : k \in 0..MaxItems }

MatchSessions ==
    { s \in [image : {"DataUrl"}, attempt_count : 0..MaxAttemptLimit,
             attempt_limit : AttemptLimits, details_threshold : {InitialThreshold}] :
        s.attempt_count <= s.attempt_limit }

InitMatch ==
    /\ fallback_mode = TRUE
    /\ is_connected = FALSE
    /\ hf_token = FALSE
    /\ connection_error = NoError
    /\ active_session \in MatchSessions
    /\ checklist \in MatchChecklists
    /\ conversation_history = <<>>
    /\ generated_image = "DataUrl"
    /\ warning_shown = FALSE
    /\ progress_text = <<>>
    /\ connecting = Idle
    /\ submissions = 0
    /\ op = [handler |-> "", ok |-> FALSE, obtained |-> FALSE,
             error |-> FALSE, offered |-> FALSE, gateway |-> {}, blank |-> FALSE]
    /\ call = <<>>
    /\ fetched = <<>>

\* one call
MatchCall ==
    \E m \in Utterances, d \in Rnd, pass \in BOOLEAN :
        LET session_arg == IF pass THEN <<active_session>> ELSE <<>>
            r == FallbackMode_process_chat_message(m, checklist, session_arg, d)
        IN /\ checklist' = r.updated_checklist
           /\ call' = <<CallRecord(m, checklist, session_arg, r,
                                    call # <<>> /\ call[1].message = m)>>
           /\ op' = [handler |-> "FallbackMode.process_chat_message", ok |-> TRUE,
                     obtained |-> FALSE,
             error |-> FALSE, offered |-> FALSE, gateway |-> {}, blank |-> FALSE]
           /\ UNCHANGED <<fallback_mode, is_connected, hf_token, connection_error,
                          active_session, conversation_history, generated_image,
                          warning_shown, progress_text, connecting, submissions, fetched>>

NextMatch == MatchCall

MatchSpec == InitMatch /\ [][NextMatch]_vars

----------------------------------------------------------------------------
(* FallbackMode.generate_placeholder_checklist called on its own             *)

SampleTopics ==
    { <<>>, Unknown, <<"m","y"," ","P","e","t">>, <<"h","a","p","p","y"," ","F","A","M","I","L","Y">>, <<"a"," ","t","r","e","e">>, <<"t","o","y"," ","b","o","x">>,
      <<"p","e","t","s","t","o","r","e">>, <<"W","i","l","d","l","i","f","e"," ","p","e","o","p","l","e">> }

SampleRnd == 0..MaxSampleRand

InitChecklist ==
    /\ fallback_mode = TRUE
    /\ is_connected = FALSE
    /\ hf_token = FALSE
    /\ connection_error = NoError
    /\ active_session = NoSession
    /\ checklist = <<>>
    /\ conversation_history = <<>>
    /\ generated_image = "None"
    /\ warning_shown = FALSE
    /\ progress_text = <<>>
    /\ connecting = Idle
    /\ submissions = 0
    /\ op = [handler |-> "", ok |-> FALSE, obtained |-> FALSE,
             error |-> FALSE, offered |-> FALSE, gateway |-> {}, blank |-> FALSE]
    /\ call = <<>>
    /\ fetched = <<>>

\* one call; call keeps the topic passed and the seed
ChecklistCall ==
    \E t \in SampleTopics, d \in SampleRnd :
        /\ checklist' = generate_placeholder_checklist(t, d)
        /\ call' = <<[topic |-> t, rnd |-> d]>>
        /\ op' = [handler |-> "FallbackMode.generate_placeholder_checklist",
                  ok |-> TRUE, obtained |-> TRUE,
                  error |-> FALSE, offered |-> FALSE, gateway |-> {}, blank |-> FALSE]
        /\ UNCHANGED <<fallback_mode, is_connected, hf_token, connection_error,
                       active_session, conversation_history, generated_image,
                       warning_shown, progress_text, connecting, submissions, fetched>>

NextChecklist == ChecklistCall

ChecklistSpec == InitChecklist /\ [][NextChecklist]_vars

----------------------------------------------------------------------------
(* generate_image called on its own, on any configuration in the session     *)
(* state; the sidebar inputs give attempt_limit 1..10 and details_threshold  *)
(* 10, 15, ..., 100, and int() and float() keep these values                 *)

ConfigLimits == (MinAttemptLimit - 1)..MaxAttemptLimit

ConfigThresholds ==
    { 0 - ThresholdStep, 0, MinThreshold, MaxThreshold, MaxThreshold + ThresholdStep }

InitSession ==
    /\ fallback_mode \in BOOLEAN
    /\ is_connected = FALSE
    /\ hf_token = TRUE
    /\ connection_error = NoError
    /\ active_session = NoSession
    /\ checklist = <<>>
    /\ conversation_history = <<>>
    /\ generated_image = "None"
    /\ warning_shown = FALSE
    /\ progress_text = NoDetails
    /\ connecting = Idle
    /\ submissions = 0
    /\ op = [handler |-> "", ok |-> FALSE, obtained |-> FALSE,
             error |-> FALSE, offered |-> FALSE, gateway |-> {}, blank |-> FALSE]
    /\ call = <<>>
    /\ fetched = <<>>

\* the configuration generate_image finds in the session state
Configured(in, l, t) ==
    [in EXCEPT !.attempt_limit = l, !.details_threshold = t]

\* what is kept of a call: the configuration it found
ConfigRecord(l, t) == <<[attempt_limit |-> l, details_threshold |-> t]>>

\* one call in fallback mode
SessionCallFallback ==
    /\ fallback_mode
    /\ \E p \in BOOLEAN, l \in ConfigLimits, t \in ConfigThresholds :
           Commit([generate_image(St, Configured([NoInput EXCEPT !.placeholder = p], l, t))
                      EXCEPT !.call = ConfigRecord(l, t)],
                  "generate_image")

\* one call in API mode
SessionCallApi ==
    /\ ~fallback_mode
    /\ \E g \in {"url", "nourl", "invalid", "raise"}, c \in ConnectOutcomes,
          l \in ConfigLimits, t \in ConfigThresholds :
           Commit([generate_image(St, Configured([NoInput EXCEPT !.gen = g, !.conn = c],
                                                 l, t))
                      EXCEPT !.call = ConfigRecord(l, t)],
                  "generate_image")

\* the "Use Fallback Mode" checkbox
SessionToggle ==
    \E conn \in ConnectOutcomes :
        Commit(toggle_fallback_mode(St, conn), "toggle_fallback_mode")

NextSession ==
    \/ SessionCallFallback
    \/ SessionCallApi
    \/ SessionToggle

SessionSpec == InitSession /\ [][NextSession]_vars

----------------------------------------------------------------------------
(* The callbacks called directly, in either mode, whatever the widgets      *)
(* allow: the buttons of "Save Log" and "Save Images" are disabled in       *)
(* fallback mode, the callbacks test the mode themselves.                   *)

InitLocal ==
    /\ fallback_mode \in BOOLEAN
    /\ is_connected = FALSE
    /\ hf_token = TRUE
    /\ connection_error = NoError
    /\ active_session = NoSession
    /\ checklist = <<>>
    /\ conversation_history = <<>>
    /\ generated_image = "None"
    /\ warning_shown = FALSE
    /\ progress_text = NoDetails
    /\ connecting = Idle
    /\ submissions = 0
    /\ op = [handler |-> "", ok |-> FALSE, obtained |-> FALSE,
             error |-> FALSE, offered |-> FALSE, gateway |-> {}, blank |-> FALSE]
    /\ call = <<>>
    /\ fetched = <<>>

LocalToggle ==
    \E conn \in ConnectOutcomes :
        Commit(toggle_fallback_mode(St, conn), "toggle_fallback_mode")

LocalGenerate ==
    \E l \in AttemptLimits, c \in ConnectOutcomes :
        Commit(generate_image(St, [NoInput EXCEPT !.placeholder = TRUE, !.attempt_limit = l,
                                                  !.conn = c, !.gen = "url"]),
               "generate_image")

LocalSubmit ==
    /\ SubmitEnabled
    /\ \E m \in Messages, c \in ConnectOutcomes :
           Commit(process_chat_message(St, [NoInput EXCEPT !.message = m, !.conn = c,
                                                           !.ai_response = <<"Nice!">>]),
                  "process_chat_message")

LocalUpdateChecklist ==
    \E c2 \in ConnectOutcomes, f \in Fetches :
        Commit(update_checklist(St, [NoInput EXCEPT !.conn2 = c2, !.fetch = f]),
               "update_checklist")

LocalSaveLog ==
    \E conn \in ConnectOutcomes, sv \in SaveOutcomes :
        Commit(save_session_log(St, [NoInput EXCEPT !.conn = conn, !.save = sv]),
               "save_session_log")

LocalSaveImages ==
    \E conn \in ConnectOutcomes, sv \in SaveOutcomes :
        Commit(save_session_images(St, [NoInput EXCEPT !.conn = conn, !.save = sv]),
               "save_session_images")

NextLocal ==
    \/ LocalToggle
    \/ LocalGenerate
    \/ LocalSubmit
    \/ LocalUpdateChecklist
    \/ LocalSaveLog
    \/ LocalSaveImages

LocalSpec == InitLocal /\ [][NextLocal]_vars

----------------------------------------------------------------------------
(* update_progress called on its own, on any checklist                      *)

ProgressChecklists ==
    UNION { { AsSeq([i \in 1..k |->
                       [detail |-> generic_details[i], identified |-> f[i], id |-> i - 1]]) :
                f \in [1..k -> BOOLEAN] } : k \in 0..MaxProgressItems }

InitProgress ==
    /\ fallback_mode = TRUE
    /\ is_connected = FALSE
    /\ hf_token = FALSE
    /\ connection_error = NoError
    /\ active_session = [NoSession EXCEPT !.image = "DataUrl"]
    /\ checklist \in ProgressChecklists
    /\ conversation_history = <<>>
    /\ generated_image = "DataUrl"
    /\ warning_shown = FALSE
    /\ progress_text = <<>>
    /\ connecting = Idle
    /\ submissions = 0
    /\ op = [handler |-> "", ok |-> FALSE, obtained |-> FALSE,
             error |-> FALSE, offered |-> FALSE, gateway |-> {}, blank |-> FALSE]
    /\ call = <<>>
    /\ fetched = <<>>

\* one call
ProgressCall ==
    /\ progress_text' = update_progress(St)
    /\ op' = [handler |-> "update_progress", ok |-> TRUE, obtained |-> FALSE,
             error |-> FALSE, offered |-> FALSE, gateway |-> {}, blank |-> FALSE]
    /\ UNCHANGED <<fallback_mode, is_connected, hf_token, connection_error,
                   active_session, checklist, conversation_history, generated_image,
                   warning_shown, connecting, submissions, call, fetched>>

NextProgress == ProgressCall

ProgressSpec == InitProgress /\ [][NextProgress]_vars

----------------------------------------------------------------------------
(* create_html_checklist and extract_checklist_from_html, one after the     *)
(* other, on any checklist                                                  *)

InitRoundTrip ==
    /\ fallback_mode = TRUE
    /\ is_connected = FALSE
    /\ hf_token = FALSE
    /\ connection_error = NoError
    /\ active_session = [NoSession EXCEPT !.image = "DataUrl"]
    /\ checklist \in ProgressChecklists
    /\ conversation_history = <<>>
    /\ generated_image = "DataUrl"
    /\ warning_shown = FALSE
    /\ progress_text = <<>>
    /\ connecting = Idle
    /\ submissions = 0
    /\ op = [handler |-> "", ok |-> FALSE, obtained |-> FALSE,
             error |-> FALSE, offered |-> FALSE, gateway |-> {}, blank |-> FALSE]
    /\ call = <<>>
    /\ fetched = <<>>

\* extract_checklist_from_html(FallbackMode.create_html_checklist(checklist))
RoundTripCall ==
    /\ fetched' = LET html == create_html_checklist(checklist)
                  IN << [html |-> html,
                         extracted |-> extract_checklist_from_html(html)] >>
    /\ op' = [handler |-> "FallbackMode.create_html_checklist", ok |-> TRUE,
              obtained |-> TRUE, error |-> FALSE, offered |-> FALSE, gateway |-> {}, blank |-> FALSE]
    /\ UNCHANGED <<fallback_mode, is_connected, hf_token, connection_error,
                   active_session, checklist, conversation_history, generated_image,
                   warning_shown, progress_text, connecting, submissions, call>>

NextRoundTrip == RoundTripCall

RoundTripSpec == InitRoundTrip /\ [][NextRoundTrip]_vars

----------------------------------------------------------------------------
(* visolearn_client.py: VisoLearnClient.initialize, one gateway exchange a   *)
(* step, as initialize_client calls it, and the error message               *)
(* initialize_client shows when it raises                                    *)

SpaceName == <<"C","o","m","p","u","m","a","c","y","/","V","i","s","o","L","e","a","r","n">>
WakePolls == 12
StatusOk == 200
Unauthorized == 401
Forbidden == 403
NotFound == 404
ServerError == 500

StatusCodes == {StatusOk, Unauthorized, Forbidden, NotFound, ServerError}

Running == <<"R","U","N","N","I","N","G">>
RunningBuilding == <<"R","U","N","N","I","N","G","_","B","U","I","L","D","I","N","G">>
Sleeping == <<"S","L","E","E","P","I","N","G">>
Paused == <<"P","A","U","S","E","D">>
Stages == {Running, RunningBuilding, Sleeping, Paused}

\* str(e) of the exceptions requests and the Gradio client raise
RequestErrors == { <<"C","o","n","n","e","c","t","i","o","n"," ","r","e","f","u","s","e","d">>, <<"R","e","a","d"," ","t","i","m","e","d"," ","o","u","t">> }
GradioErrors == { <<"C","o","u","l","d"," ","n","o","t"," ","f","e","t","c","h"," ","c","o","n","f","i","g">> }

\* error_msg for a status code other than 200
StatusError(status_code) ==
    <<"F","a","i","l","e","d"," ","t","o"," ","c","o","n","n","e","c","t"," ","t","o"," ">> \o SpaceName \o <<"."," ","S","t","a","t","u","s"," ","c","o","d","e",":"," ">> \o Decimal(status_code)
    \o (IF status_code = Unauthorized
        THEN <<"."," ","I","n","v","a","l","i","d"," ","o","r"," ","u","n","a","u","t","h","o","r","i","z","e","d"," ","t","o","k","e","n","."," ","P","l","e","a","s","e"," ","c","h","e","c","k"," ","y","o","u","r"," ","H","u","g","g","i","n","g"," ","F","a","c","e"," ","t","o","k","e","n",".">>
        ELSE IF status_code = NotFound
        THEN <<"."," ","S","p","a","c","e"," ","n","o","t"," ","f","o","u","n","d","."," ","C","h","e","c","k"," ","i","f"," ","t","h","e"," ","s","p","a","c","e"," ","n","a","m","e"," ","i","s"," ","c","o","r","r","e","c","t",".">>
        ELSE IF status_code = Forbidden
        THEN <<"."," ","Y","o","u"," ","d","o","n","'","t"," ","h","a","v","e"," ","p","e","r","m","i","s","s","i","o","n"," ","t","o"," ","a","c","c","e","s","s"," ","t","h","i","s"," ","p","r","i","v","a","t","e"," ","s","p","a","c","e",".">>
        ELSE <<>>)

WakeError == <<"F","a","i","l","e","d"," ","t","o"," ","w","a","k","e"," ","u","p"," ","t","h","e"," ","s","p","a","c","e"," ">> \o SpaceName

NotRunningError(status) ==
    <<"S","p","a","c","e"," ">> \o SpaceName \o <<" ","i","s"," ","n","o","t"," ","r","u","n","n","i","n","g","."," ","C","u","r","r","e","n","t"," ","s","t","a","t","u","s",":"," ">> \o status

GradioError(e) == <<"F","a","i","l","e","d"," ","t","o"," ","i","n","i","t","i","a","l","i","z","e"," ","G","r","a","d","i","o"," ","c","l","i","e","n","t",":"," ">> \o e

\* except requests.exceptions.RequestException as e
NetworkError(e) == <<"N","e","t","w","o","r","k"," ","e","r","r","o","r"," ","w","h","e","n"," ","c","o","n","n","e","c","t","i","n","g"," ","t","o"," ","H","u","g","g","i","n","g"," ","F","a","c","e",":"," ">> \o e

\* except Exception as e: it also catches the ConnectionError raised inside the try
ClientError(e) == <<"F","a","i","l","e","d"," ","t","o"," ","i","n","i","t","i","a","l","i","z","e"," ","V","i","s","o","L","e","a","r","n"," ","c","l","i","e","n","t",":"," ">> \o e

FailedToConnect == <<"Failed to connect to VisoLearn API">>
ForbiddenMessage ==
    <<": You don't have permission to access this private space. Please check that your token has the correct permissions.">>
UnauthorizedMessage ==
    <<": Invalid or unauthorized token. Please check your Hugging Face token.">>
NotFoundMessage ==
    <<": Space not found. The VisoLearn space may have been moved or renamed.">>
SleepingMessage ==
    <<": The space is sleeping. Trying to wake it up, please wait a moment and try again.">>
NotRunningMessage ==
    <<": The space is not running. Please wait a moment and try again.">>
TokenRequired ==
    <<"Hugging Face token is required. Please enter your token in the sidebar.">>

\* the message initialize_client shows for str(e)
error_message(detailed_error) ==
    FailedToConnect \o
        (IF In(Decimal(Forbidden), detailed_error) THEN ForbiddenMessage
         ELSE IF In(Decimal(Unauthorized), detailed_error) THEN UnauthorizedMessage
         ELSE IF In(Decimal(NotFound), detailed_error) THEN NotFoundMessage
         ELSE IF In(<<"s","l","e","e","p","i","n","g">>, Lower(detailed_error)) THEN SleepingMessage
         ELSE IF In(<<"n","o","t"," ","r","u","n","n","i","n","g">>, Lower(detailed_error)) THEN NotRunningMessage
         ELSE <<":"," ">> \o detailed_error)

InitConnect ==
    /\ fallback_mode = FALSE
    /\ is_connected = FALSE
    /\ hf_token \in BOOLEAN
    /\ connection_error = NoError
    /\ active_session = NoSession
    /\ checklist = <<>>
    /\ conversation_history = <<>>
    /\ generated_image = "None"
    /\ warning_shown = FALSE
    /\ progress_text = NoDetails
    /\ connecting = Idle
    /\ submissions = 0
    /\ op = [handler |-> "", ok |-> FALSE, obtained |-> FALSE,
             error |-> FALSE, offered |-> FALSE, gateway |-> {}, blank |-> FALSE]
    /\ call = <<>>
    /\ fetched = <<>>

ConnectUnchanged ==
    UNCHANGED <<active_session, checklist, conversation_history, generated_image,
                warning_shown, progress_text, submissions, call, fetched>>

\* VisoLearnClient(...) raises: the except branch of initialize_client;
\* kind tells which raise of VisoLearnClient.initialize it was
Raised(detailed_error, kind) ==
    /\ connection_error' = detailed_error
    /\ is_connected' = FALSE
    /\ connecting' = [connecting EXCEPT !.pc = "done", !.kind = kind,
                                        !.error_message = error_message(detailed_error)]
    /\ op' = [handler |-> "initialize_client", ok |-> FALSE, obtained |-> FALSE,
             error |-> TRUE, offered |-> FALSE, gateway |-> {"VisoLearnClient"}, blank |-> FALSE]
    /\ UNCHANGED <<fallback_mode, hf_token>>
    /\ ConnectUnchanged

\* another exchange follows; stage is the stage last read from an answer
Goto(pc, polls, stage) ==
    /\ connecting' = [connecting EXCEPT !.pc = pc, !.polls = polls, !.stage = stage]
    /\ UNCHANGED <<fallback_mode, is_connected, hf_token, connection_error, op>>
    /\ ConnectUnchanged

\* initialize_client is called: without a token it returns at once
ConnectStart ==
    /\ connecting.pc \in {"idle", "done"}
    /\ IF ~hf_token
       THEN /\ connection_error' = MissingToken
            /\ is_connected' = FALSE
            /\ connecting' = [pc |-> "done", polls |-> 0, stage |-> <<>>, kind |-> "token",
                              error_message |-> TokenRequired]
            /\ op' = [handler |-> "initialize_client", ok |-> FALSE, obtained |-> FALSE,
                      error |-> FALSE, offered |-> FALSE, gateway |-> {}, blank |-> FALSE]
            /\ UNCHANGED <<fallback_mode, hf_token>>
            /\ ConnectUnchanged
       ELSE /\ connecting' = [Idle EXCEPT !.pc = "runtime"]
            /\ UNCHANGED <<fallback_mode, is_connected, hf_token, connection_error, op>>
            /\ ConnectUnchanged

\* the answer to GET .../runtime
RuntimeResponse ==
    /\ connecting.pc = "runtime"
    /\ \/ \E e \in RequestErrors : Raised(NetworkError(e), "network")
       \/ \E c \in StatusCodes \ {StatusOk} :
              Raised(ClientError(StatusError(c)),
                     IF c = Unauthorized THEN "unauthorized"
                     ELSE IF c = Forbidden THEN "forbidden"
                     ELSE IF c = NotFound THEN "not_found" ELSE "status")
       \/ \E status \in Stages :
              IF status \in {Running, RunningBuilding} THEN Goto("client", 0, status)
              ELSE IF status = Sleeping THEN Goto("wake", 0, status)
              ELSE Raised(ClientError(NotRunningError(status)), "not_running")

\* the answer to POST .../wake
WakeResponse ==
    /\ connecting.pc = "wake"
    /\ \/ \E e \in RequestErrors : Raised(NetworkError(e), "network")
       \/ \E c \in StatusCodes :
              IF c = StatusOk THEN Goto("poll", 0, connecting.stage)
              ELSE Raised(ClientError(WakeError), "asleep")

\* for _ in range(12): the answer to one more GET .../runtime
PollResponse ==
    /\ connecting.pc = "poll"
    /\ connecting.polls < WakePolls
    /\ \/ \E e \in RequestErrors : Raised(NetworkError(e), "network")
       \/ \E c \in StatusCodes, current_status \in Stages :
              IF c = StatusOk /\ current_status = Running
              THEN Goto("client", connecting.polls + 1, current_status)
              ELSE Goto("poll", connecting.polls + 1,
                        IF c = StatusOk THEN current_status ELSE connecting.stage)

\* the loop ends without a break
PollsExhausted ==
    /\ connecting.pc = "poll"
    /\ connecting.polls = WakePolls
    /\ Goto("client", connecting.polls, connecting.stage)

\* Client(...), and the try branch of initialize_client when it returns
ClientInit ==
    /\ connecting.pc = "client"
    /\ \/ \E e \in GradioErrors : Raised(ClientError(GradioError(e)), "client")
       \/ /\ is_connected' = TRUE
          /\ connection_error' = NoError
          /\ fallback_mode' = FALSE
          /\ connecting' = [connecting EXCEPT !.pc = "done", !.kind = "",
                                              !.error_message = <<>>]
          /\ op' = [handler |-> "initialize_client", ok |-> TRUE, obtained |-> FALSE,
             error |-> FALSE, offered |-> FALSE, gateway |-> {"VisoLearnClient"}, blank |-> FALSE]
          /\ UNCHANGED hf_token
          /\ ConnectUnchanged

NextConnect ==
    \/ ConnectStart
    \/ RuntimeResponse
    \/ WakeResponse
    \/ PollResponse
    \/ PollsExhausted
    \/ ClientInit

ConnectSpec == InitConnect /\ [][NextConnect]_vars

----------------------------------------------------------------------------
(* Properties *)

\* positions a..b of s hold one whitespace-separated word of s
WordAt(s, a, b) ==
    /\ a <= b
    /\ \A i \in a..b : s[i] \notin Whitespace
    /\ a = 1 \/ s[a - 1] \in Whitespace
    /\ b = Len(s) \/ s[b + 1] \in Whitespace

\* some word of the lower-cased detail is longer than 3 characters and occurs
\* in the lower-cased message
HasMatchingWord(detail, message) ==
    LET d == Lower(detail)
        m == Lower(message)
    IN \E a \in 1..Len(d), b \in 1..Len(d) :
           /\ WordAt(d, a, b)
           /\ b - a + 1 > 3
           /\ \E k \in 0..(Len(m) - (b - a + 1)) :
                  \A j \in 1..(b - a + 1) : m[k + j] = d[a + j - 1]

LastCall == call[1]
Called == call # <<>>
Unidentified == {i \in 1..Len(checklist) : ~checklist[i].identified}
\* the items the last call turned from unidentified to identified
NewlyIdentified == {i \in 1..Len(checklist) : ~LastCall.before[i] /\ checklist[i].identified}

\* C1: monotonicity of the matcher: in every call of
\* FallbackMode.process_chat_message, whatever the utterances before it, an item
\* identified before the call is identified in the checklist the call returns
\* (the checklist keeps its length, and a flag only goes from false to true).
C1_Monotonic ==
    [][ /\ Len(checklist') = Len(checklist)
        /\ \A i \in 1..Len(checklist) :
               checklist[i].identified => checklist'[i].identified ]_vars

C1_Witness ==
    /\ Called
    /\ \E i \in 1..Len(checklist) : LastCall.before[i]
    /\ NewlyIdentified # {}

\* C2: the matcher's rule: after a call, an item that was unidentified before
\* it is identified exactly if some whitespace-separated word of its lower-cased
\* detail is longer than 3 characters and occurs in the lower-cased message.
\* "I see a big red dog" identifies neither "Animal type" nor "Animal
\* coloring"; "look at the shadows and highlights" identifies "Shadows and
\* highlights".
C2_MatcherRule ==
    Called =>
        /\ \A i \in 1..Len(checklist) :
               ~LastCall.before[i] =>
                   (checklist[i].identified
                        <=> HasMatchingWord(checklist[i].detail, LastCall.message))
        /\ LastCall.message = RedDog =>
               \A i \in 1..Len(checklist) :
                   (~LastCall.before[i] /\ checklist[i].detail \in {AnimalType, AnimalColoring})
                       => ~checklist[i].identified
        /\ LastCall.message = LookShadows =>
               \A i \in 1..Len(checklist) :
                   checklist[i].detail = ShadowsAndHighlights => checklist[i].identified

C2_Witness ==
    /\ Called
    /\ LastCall.message = LookShadows
    /\ \E i \in NewlyIdentified : checklist[i].detail = ShadowsAndHighlights
    /\ \E i \in Unidentified : checklist[i].detail = SunSky

\* C3: attempt saturation: after N accepted submissions for the current image,
\* attempt_count is min(N, attempt_limit); a submission at the limit is
\* accepted and leaves attempt_count at the limit.
C3_AttemptSaturation ==
    active_session.attempt_count = Min(submissions, active_session.attempt_limit)

C3_Witness ==
    /\ op.handler = "process_chat_message" /\ op.ok
    /\ submissions > active_session.attempt_limit
    /\ active_session.attempt_count = active_session.attempt_limit

\* a step that generates an image
NewImage == op'.handler = "generate_image" /\ op'.ok

\* C4: in every reachable state 0 <= attempt_count <= attempt_limit, and no
\* step other than the generation of an image decreases attempt_count.
C4_AttemptBounds ==
    /\ [](/\ 0 <= active_session.attempt_count
          /\ active_session.attempt_count <= active_session.attempt_limit)
    /\ [][NewImage \/ active_session'.attempt_count >= active_session.attempt_count]_vars

C4_Witness ==
    /\ op.handler = "toggle_fallback_mode"
    /\ active_session.attempt_count = active_session.attempt_limit
    /\ active_session.attempt_limit > MinAttemptLimit

\* the affirming message for k new details
Affirming(k) ==
    GreatJob \o Str(k) \o NewDetail \o (IF k > 1 THEN <<"s">> ELSE <<>>) \o <<".">>
    \o (IF k > 1 THEN Excellent ELSE <<>>)

HasLastAttemptWarning(response) ==
    /\ Len(response) >= Len(LastAttempt)
    /\ SubSeq(response, Len(response) - Len(LastAttempt) + 1, Len(response)) = LastAttempt

\* C5: affirming response: a call that turns k >= 1 items from unidentified to
\* identified answers with the "Great job" message for exactly k new details,
\* with the enthusiasm clause exactly if k > 1 (possibly followed by the
\* last-attempt warning).
C5_Affirming ==
    Called =>
        LET k == Cardinality(NewlyIdentified)
        IN k >= 1 => LastCall.response \in {Affirming(k), Affirming(k) \o LastAttempt}

\* C6: session reset: when generate_image has succeeded, attempt_count is 0,
\* the conversation history is empty and the checklist is the one obtained for
\* the new image.
C6_SessionReset ==
    (op.handler = "generate_image" /\ op.ok) =>
        /\ active_session.attempt_count = 0
        /\ conversation_history = <<>>
        /\ op.obtained

\* C7: last-attempt warning: the response of a submission carries the warning
\* exactly if attempt_count before the attempt is recorded is attempt_limit - 1
\* and some item is unidentified after matching.
C7_LastAttemptWarning ==
    (Called /\ LastCall.session # <<>>) =>
        (HasLastAttemptWarning(LastCall.response)
            <=> /\ LastCall.session[1].attempt_count = LastCall.session[1].attempt_limit - 1
                /\ Unidentified # {})

\* C8: exhaustion: the "Maximum attempts reached" warning is shown exactly when
\* attempt_count >= attempt_limit and some checklist item is unidentified.
C8_Exhaustion ==
    warning_shown <=>
        /\ active_session.attempt_count >= active_session.attempt_limit
        /\ Unidentified # {}

C8_Witness ==
    /\ warning_shown
    /\ active_session.attempt_count = active_session.attempt_limit
    /\ \E i \in 1..Len(checklist) : checklist[i].identified

\* the item elements of the markup, in document order
RECURSIVE ItemElements(_)
ItemElements(html) ==
    IF html = <<>> THEN <<>>
    ELSE (IF Head(html).kind = "item" THEN <<Head(html)>> ELSE <<>>)
         \o ItemElements(Tail(html))

\* the element carries the class name among its whitespace-separated classes
Tagged(el, class) ==
    \E a \in 1..Len(el.cls), b \in 1..Len(el.cls) :
        WordAt(el.cls, a, b) /\ SubSeq(el.cls, a, b) = class

\* C9: markup decoding: one entry per checklist-item element, in document
\* order, with ids 0, 1, 2, ... and the element's label, identified exactly if
\* the element is tagged with the class "identified".
C9_Decoding ==
    fetched # <<>> =>
        LET els == ItemElements(fetched[1].html)
            out == fetched[1].extracted
        IN /\ Len(out) = Len(els)
           /\ \A i \in 1..Len(out) :
                  /\ out[i].id = i - 1
                  /\ out[i].detail = els[i].detail
                  /\ out[i].identified <=> Tagged(els[i], IdentifiedClass)

\* C10: idempotence of the matcher: a call with the same utterance as the call
\* before it, on the checklist that call returned, changes no flag: the
\* checklist it returns equals the checklist it was given.
C10_Idempotent ==
    (Called /\ LastCall.repeated) => Flags(checklist) = LastCall.before

C10_Witness ==
    /\ Called /\ LastCall.repeated
    /\ LastCall.message = LookShadows
    /\ \E i \in 1..Len(checklist) : checklist[i].identified
    /\ Unidentified # {}

\* the checklist the last call was given
LastCallChecklist ==
    AsSeq([i \in 1..Len(checklist) |->
              [checklist[i] EXCEPT !.identified = LastCall.before[i]]])

\* C11: the response is a function of the arguments: every call of
\* FallbackMode.process_chat_message with the message, the checklist and the
\* active_session of the last call returns the response the last call
\* returned, whatever the state of the random generator.
C11_PureResponse ==
    Called =>
        \A d \in Rnd :
            FallbackMode_process_chat_message(
                LastCall.message, LastCallChecklist, LastCall.session, d).response
                    = LastCall.response

\* the prompting question that names a detail
Hint(detail) == GoodTry \o Lower(detail) \o <<"?">>

\* the response is text, possibly followed by the last-attempt warning
Says(response, text) == response = text \/ response = text \o LastAttempt

\* C12: hint response: a call that newly identifies no item and leaves some
\* item unidentified answers with the prompting question naming one item that
\* is unidentified after the call, and not with the question for an identified
\* item (one whose detail no unidentified item shares).
C12_HintResponse ==
    (Called /\ NewlyIdentified = {} /\ Unidentified # {}) =>
        /\ \E i \in Unidentified : Says(LastCall.response, Hint(checklist[i].detail))
        /\ \A j \in 1..Len(checklist) :
               (/\ checklist[j].identified
                /\ \A i \in Unidentified :
                       Lower(checklist[i].detail) # Lower(checklist[j].detail))
                   => ~Says(LastCall.response, Hint(checklist[j].detail))

C12_Witness ==
    /\ Called /\ NewlyIdentified = {}
    /\ \E i \in Unidentified : Says(LastCall.response, Hint(checklist[i].detail))
    /\ \E j \in 1..Len(checklist) : checklist[j].identified

\* C13: completion response: the completion message is returned only by a call
\* that newly identified no item and after which every item is identified.
C13_Completion ==
    (Called /\ Says(LastCall.response, Wonderful)) =>
        /\ NewlyIdentified = {}
        /\ Unidentified = {}

Roles == {Child, Teacher}

IsPrefix(a, b) == Len(a) <= Len(b) /\ SubSeq(b, 1, Len(a)) = a

\* a step in which a submission is accepted
Accepted == op'.handler = "process_chat_message" /\ op'.ok

\* C14: transcript discipline: every entry of the conversation history has
\* the role Child or Teacher; a step that generates an image empties the
\* history, every other step keeps what it holds as a prefix, and a step that
\* accepts a submission appends exactly (Child, utterance), (Teacher, response).
C14_Transcript ==
    /\ [](\A i \in 1..Len(conversation_history) :
              /\ Len(conversation_history[i]) = 2
              /\ conversation_history[i][1] \in Roles)
    /\ [][ /\ NewImage => conversation_history' = <<>>
           /\ ~NewImage => IsPrefix(conversation_history, conversation_history')
           /\ Accepted =>
                  \E m \in Messages :
                  \E r \in IF call' # <<>> THEN {call'[1].response} ELSE AiResponses :
                      /\ Strip(m) # <<>>
                      /\ call' # <<>> => call'[1].message = Strip(m)
                      /\ conversation_history' =
                             conversation_history \o
                                 << <<Child, Strip(m)>>, <<Teacher, r>> >>
           /\ (~Accepted /\ ~NewImage) =>
                  conversation_history' = conversation_history ]_vars

C14_Witness ==
    /\ op.handler = "process_chat_message" /\ op.ok
    /\ Len(conversation_history) >= 4
    /\ \E i \in 1..Len(conversation_history) : conversation_history[i][2] \in AiResponses
    /\ call # <<>>
    /\ conversation_history[Len(conversation_history)] = <<Teacher, LastCall.response>>

Abs(x) == IF x < 0 THEN -x ELSE x

\* the number of identified items
IdentifiedCount == Cardinality({i \in 1..Len(checklist) : checklist[i].identified})

\* the report of k of n details and of a percentage of t tenths
ProgressReport(k, n, t) ==
    <<"P","r","o","g","r","e","s","s",":"," ">> \o Decimal(k) \o <<"/">> \o Decimal(n) \o <<" ","d","e","t","a","i","l","s"," ","(">>
    \o Decimal(t \div 10) \o <<".">> \o Decimal(t % 10) \o <<"%",")">>

\* C15: progress correctness: for a non-empty checklist the progress text
\* reports the number of identified items, the length of the checklist and the
\* percentage identified / total * 100 to one decimal (the tenth nearest to
\* it), with identified <= total and 0 <= percentage <= 100; 1 of 4 is
\* reported as 1/4 and 25.0%.
C15_Progress ==
    (progress_text # <<>> /\ checklist # <<>>) =>
        LET n == Len(checklist)
            k == IdentifiedCount
        IN /\ k <= n
           /\ \E t \in 0..1000 :
                  /\ 2 * Abs(t * n - 1000 * k) <= n
                  /\ progress_text = ProgressReport(k, n, t)
           /\ (n = 4 /\ k = 1) => progress_text = <<"P","r","o","g","r","e","s","s",":"," ","1","/","4"," ","d","e","t","a","i","l","s"," ","(","2","5",".","0","%",")">>

C15_Witness ==
    /\ op.handler = "update_progress"
    /\ Len(checklist) = 4 /\ IdentifiedCount = 1
    /\ progress_text = <<"P","r","o","g","r","e","s","s",":"," ","1","/","4"," ","d","e","t","a","i","l","s"," ","(","2","5",".","0","%",")">>

\* C16: empty checklist: the progress computed for an empty checklist is a
\* percentage of 0.
C16_EmptyChecklist ==
    (progress_text # <<>> /\ checklist = <<>>) =>
        \/ In(<<"0","%">>, progress_text)
        \/ In(<<"0",".","0","%">>, progress_text)

Range(seq) == {seq[i] : i \in 1..Len(seq)}

\* the topic holds one of the words as a whitespace-separated word, in any case
HasKeyword(topic, words) ==
    LET t == Lower(topic)
    IN \E a \in 1..Len(t), b \in 1..Len(t) : WordAt(t, a, b) /\ SubSeq(t, a, b) \in words

\* the details of the buckets whose keywords the topic holds
BucketDetails(topic) ==
    UNION { IF HasKeyword(topic, bucket[1]) THEN Range(bucket[2]) ELSE {} :
            bucket \in { <<animal_words, animal_details>>, <<people_words, people_details>>,
                         <<nature_words, nature_details>>, <<object_words, object_details>> } }

Generated == op.handler = "FallbackMode.generate_placeholder_checklist"

\* C17: local simulation checklist: for every topic the generated checklist
\* has between 5 and 8 items with pairwise distinct details, each from a bucket
\* the topic's keywords select or from the generic pool, all unidentified, with
\* the ids 0..n-1 in list order.
C17_PlaceholderChecklist ==
    Generated =>
        /\ Len(checklist) >= 5 /\ Len(checklist) <= 8
        /\ \A i \in 1..Len(checklist) :
               /\ checklist[i].id = i - 1
               /\ ~checklist[i].identified
               /\ checklist[i].detail \in Range(generic_details) \cup BucketDetails(LastCall.topic)
               /\ \A j \in 1..Len(checklist) :
                      i # j => checklist[i].detail # checklist[j].detail

C17_Witness ==
    /\ Generated
    /\ Len(checklist) = 8
    /\ \E i \in 1..Len(checklist) : checklist[i].detail \in Range(nature_details)
    /\ \E i \in 1..Len(checklist) : checklist[i].detail \in Range(generic_details)

\* VisoLearnClient.initialize has failed in the way kind names
Failed(kind) == connecting.pc = "done" /\ connecting.kind = kind

\* C18: distinguishable gateway failures: initialize_client gives each of the
\* five failure kinds a message of its own: unauthorized (401), forbidden
\* (403), not found (404), service asleep or not running, and, with the text
\* of the exception, a network error.
C18_Distinguishable ==
    /\ Failed("unauthorized") => connecting.error_message = FailedToConnect \o UnauthorizedMessage
    /\ Failed("forbidden") => connecting.error_message = FailedToConnect \o ForbiddenMessage
    /\ Failed("not_found") => connecting.error_message = FailedToConnect \o NotFoundMessage
    /\ Failed("asleep") => connecting.error_message = FailedToConnect \o SleepingMessage
    /\ Failed("not_running") => connecting.error_message = FailedToConnect \o NotRunningMessage
    /\ Failed("network") =>
           connecting.error_message = FailedToConnect \o <<":"," ">> \o connection_error

\* C19: fallback always offered: a handler that shows an error of the gateway
\* (connecting, generating an image, submitting a description, fetching the
\* checklist, saving the log or the images) offers the switch to fallback mode
\* on the path that handles the error.
C19_FallbackOffered ==
    op.error => op.offered

Undecodable ==
    /\ fetched # <<>>
    /\ fetched[1].html # <<>>
    /\ fetched[1].extracted = <<>>

\* C21: strict checklist decoding: when the gateway returns non-empty checklist
\* markup from which no item can be decoded, update_checklist shows an error
\* of the gateway (a malformed response); it does not go on with an empty or a
\* substituted checklist.
C21_StrictDecoding ==
    Undecodable => (op.error /\ ~op.obtained)

\* the operations fallback mode serves locally or refuses
LocalHandlers ==
    {"generate_image", "process_chat_message", "update_checklist",
     "save_session_log", "save_session_images"}

\* C22: fallback mode is local-only: a call of generate image, submit
\* description or update checklist made while fallback_mode is true, and the
\* rendering of the progress after it, calls no method of the gateway's
\* client; save log and save images made while fallback_mode is true call
\* none either and leave the checklist, attempt_count, the conversation
\* history and the image as they are.
C22_LocalOnly ==
    [][(fallback_mode /\ op'.handler \in LocalHandlers) =>
          /\ op'.gateway = {}
          /\ op'.handler \in {"save_session_log", "save_session_images"} =>
                 /\ checklist' = checklist
                 /\ active_session' = active_session
                 /\ conversation_history' = conversation_history
                 /\ generated_image' = generated_image]_vars

C22_Witness ==
    /\ fallback_mode
    /\ op.handler = "save_session_log"
    /\ op.gateway = {}
    /\ conversation_history # <<>>
    /\ active_session.attempt_count > 0

\* C23: process_chat_message does not modify the checklist passed to it: after
\* the call every item of the caller's list has the identified flag it had
\* before the call; only the returned list carries the newly set flags.
C23_CallerUnchanged ==
    Called => LastCall.original = LastCall.before

Encoded == op.handler = "FallbackMode.create_html_checklist"

\* C24: encode/decode round trip: for every checklist whose ids are 0..n-1 in
\* order, extract_checklist_from_html(create_html_checklist(checklist)) equals
\* the checklist: same length, order, ids, detail texts and identified flags.
C24_RoundTrip ==
    Encoded => fetched[1].extracted = checklist

\* C25: mode exclusion: in every state reached by toggling fallback mode,
\* validating the token, generating an image, submitting a description and
\* taking the "Use Fallback Mode Instead" / "Switch to Fallback Mode" buttons,
\* is_connected and fallback_mode are never both true.
C25_ModeExclusion ==
    ~(is_connected /\ fallback_mode)

\* C26: a blank submission is a no-op: a call of process_chat_message that
\* finds a message that is empty or only whitespace, in fallback mode or in
\* API mode, leaves the checklist, attempt_count and the conversation history
\* as they are: no attempt is recorded, nothing is appended to the transcript.
C26_BlankNoOp ==
    [][(op'.handler = "process_chat_message" /\ op'.blank) =>
          /\ checklist' = checklist
          /\ active_session'.attempt_count = active_session.attempt_count
          /\ conversation_history' = conversation_history]_vars

C26_Witness ==
    /\ op.handler = "process_chat_message" /\ op.blank
    /\ "VisoLearnClient" \in op.gateway
    /\ conversation_history # <<>>
    /\ active_session.attempt_count > 0
    /\ active_session.attempt_count < active_session.attempt_limit

\* the step is a submission in API mode whose chat call was made and raised or
\* returned an invalid reply, without the switch to fallback mode being taken
FailedSubmission ==
    /\ op'.handler = "process_chat_message"
    /\ "chat_respond" \in op'.gateway
    /\ op'.error /\ ~op'.ok

\* C27: a failed gateway submission changes nothing: in API mode, when the chat
\* call raises or returns something that is not a tuple of at least 2 elements
\* and the user does not switch to fallback mode, attempt_count, the
\* conversation history, the checklist and the image reference are the same
\* as before the submission.
C27_FailedSubmission ==
    [][FailedSubmission =>
          /\ active_session' = active_session
          /\ conversation_history' = conversation_history
          /\ checklist' = checklist
          /\ generated_image' = generated_image]_vars

C27_Witness ==
    /\ op.handler = "process_chat_message"
    /\ "chat_respond" \in op.gateway
    /\ op.error /\ ~op.ok /\ ~op.offered
    /\ conversation_history # <<>>
    /\ active_session.attempt_count > 0
    /\ active_session.attempt_count < active_session.attempt_limit

\* VisoLearnClient.initialize found the space asleep, woke it and has
\* returned True
WokenAndInitialized ==
    /\ connecting.pc = "done"
    /\ op.handler = "initialize_client" /\ op.ok
    /\ connecting.polls >= 1

\* C28: wake-up protocol: when VisoLearnClient.initialize finds the space in
\* stage SLEEPING it polls the runtime status at most 12 times and then stops
\* waiting, and it goes on to create the Gradio client and report success only
\* if one of those polls observed stage RUNNING.
C28_WakeUp ==
    /\ connecting.polls <= WakePolls
    /\ WokenAndInitialized => connecting.stage = Running

====
